---- MODULE Spec2Model ----
(***************************************************************************)
(* A model of the scalar reverse-mode autodiff engine of src/source/value.ts*)
(* (class Value): the heap of nodes, the operation builders, backward,     *)
(* resetGrad, clipGradients, checkGradientHealth, getHigherOrderGradient.  *)
(*                                                                         *)
(* Numbers.  A JavaScript number is modelled as a pair <<n, d>>:           *)
(*   d > 0  : the finite value n/d, in lowest terms;                       *)
(*   <<1,0>>: +Infinity,  <<-1,0>>: -Infinity,  <<0,0>>: NaN.              *)
(* A result whose magnitude exceeds MaxValue overflows to an infinity, as  *)
(* a double does beyond Number.MAX_VALUE, and a nonzero result whose       *)
(* magnitude is below 1/MaxValue underflows to zero, as a double does      *)
(* below Number.MIN_VALUE.  A result is exact as long as its numerator and *)
(* denominator fit in Precision; beyond that it is rounded (toward zero;   *)
(* a double rounds its 53-bit mantissa to nearest).  The special values    *)
(* follow IEEE 754 (Inf - Inf = NaN, 0 * Inf = NaN, x / 0 = +-Inf, ...).   *)
(* Negative zero is not distinguished from zero.                           *)
(***************************************************************************)
EXTENDS Integers, Sequences, FiniteSets, TLC

\* ------------------------------------------------------------------ bounds
\* The largest finite magnitude of the modelled number format.
MaxValue == 4096
\* The largest numerator and denominator the number format holds exactly.
Precision == 16384
\* The heap holds at most MaxNodes Value objects.
MaxNodes == 3
\* The largest order passed to backward / getHigherOrderGradient.
MaxOrder == 2
\* At most MaxCalls calls other than constructor and builder calls are made.
MaxCalls == 3
\* The specifications about one backward pass allow MaxBackwards calls, and
\* those about the call that follows it one more.
MaxBackwards == 1

\* ----------------------------------------------------------------- numbers
PosInf == <<1, 0>>
NegInf == <<-1, 0>>
NaN == <<0, 0>>

AbsInt(i) == IF i < 0 THEN -i ELSE i
SignInt(i) == IF i < 0 THEN -1 ELSE IF i > 0 THEN 1 ELSE 0

RECURSIVE GCD(_, _)
GCD(a, b) == IF b = 0 THEN a ELSE GCD(b, a % b)

\* The number n/d (d # 0) as the number format stores it: an infinity when
\* it overflows, zero when it underflows, rounded when it exceeds the
\* precision, and in lowest terms.
Lowest(sgn, a, d, g) == <<sgn * (a \div g), d \div g>>
Rounded(sgn, a, d, k) == Lowest(sgn, a \div k, d \div k, GCD(a \div k, d \div k))
\* a/d > MaxValue, for a >= 0 and d > 0
Exceeds(a, d) ==
  a \div d > MaxValue \/ (a \div d = MaxValue /\ a % d # 0)
NormAbs(sgn, a, d) ==
  IF Exceeds(a, d) THEN <<sgn, 0>>
  ELSE IF a = 0 \/ Exceeds(d, a) THEN <<0, 1>>
  ELSE Rounded(sgn, a, d, ((IF a > d THEN a ELSE d) + Precision - 1) \div Precision)
Norm(n, d) == NormAbs(SignInt(n) * SignInt(d), AbsInt(n), AbsInt(d))

Num(i) == Norm(i, 1)
Zero == <<0, 1>>
One == <<1, 1>>

IsNaN(x) == x = NaN
IsInf(x) == x[2] = 0 /\ x[1] # 0
\* Number.isFinite
IsFinite(x) == x[2] # 0
Sign(x) == SignInt(x[1])

\* x < y, false when either side is NaN
Lt(x, y) ==
  /\ ~IsNaN(x)
  /\ ~IsNaN(y)
  /\ x # y
  /\ IF IsInf(x) \/ IsInf(y)
       THEN x = NegInf \/ y = PosInf
       ELSE x[1] * y[2] < y[1] * x[2]
Gt(x, y) == Lt(y, x)
Le(x, y) == ~IsNaN(x) /\ ~IsNaN(y) /\ ~Lt(y, x)
Ge(x, y) == Le(y, x)

Neg(x) == <<-x[1], x[2]>>
\* Math.abs
Abs(x) == <<AbsInt(x[1]), x[2]>>

AddOver(x, y, g) ==
  Norm(x[1] * (y[2] \div g) + y[1] * (x[2] \div g), (x[2] \div g) * y[2])
\* x + y
NumAdd(x, y) ==
  IF IsNaN(x) \/ IsNaN(y) THEN NaN
  ELSE IF IsInf(x) /\ IsInf(y) THEN (IF x = y THEN x ELSE NaN)
  ELSE IF IsInf(x) THEN x
  ELSE IF IsInf(y) THEN y
  ELSE AddOver(x, y, GCD(x[2], y[2]))

\* x - y
NumSub(x, y) == NumAdd(x, Neg(y))

MulOver(x, y, g1, g2) ==
  Norm((x[1] \div g1) * (y[1] \div g2), (x[2] \div g2) * (y[2] \div g1))
\* x * y
NumMul(x, y) ==
  IF IsNaN(x) \/ IsNaN(y) THEN NaN
  ELSE IF IsInf(x) \/ IsInf(y)
    THEN (IF Sign(x) * Sign(y) = 0 THEN NaN ELSE <<Sign(x) * Sign(y), 0>>)
  ELSE MulOver(x, y, GCD(AbsInt(x[1]), y[2]), GCD(AbsInt(y[1]), x[2]))

DivOver(x, y, g1, g2) ==
  Norm((x[1] \div g1) * (y[2] \div g2), (x[2] \div g2) * (y[1] \div g1))
\* x / y
NumDiv(x, y) ==
  IF IsNaN(x) \/ IsNaN(y) THEN NaN
  ELSE IF IsInf(x) /\ IsInf(y) THEN NaN
  ELSE IF IsInf(x) THEN <<Sign(x) * (IF Sign(y) < 0 THEN -1 ELSE 1), 0>>
  ELSE IF IsInf(y) THEN Zero
  ELSE IF y[1] = 0 THEN (IF x[1] = 0 THEN NaN ELSE <<Sign(x), 0>>)
  ELSE DivOver(x, y, GCD(AbsInt(x[1]), AbsInt(y[1])), GCD(x[2], y[2]))

\* Math.max, Math.min (NaN if either argument is NaN)
NumMax(x, y) == IF IsNaN(x) \/ IsNaN(y) THEN NaN ELSE IF Lt(x, y) THEN y ELSE x
NumMin(x, y) == IF IsNaN(x) \/ IsNaN(y) THEN NaN ELSE IF Lt(y, x) THEN y ELSE x

\* Number.isInteger
IsInteger(x) == x[2] = 1

Square(x) == NumMul(x, x)
\* x ** k for an integer k >= 0, by repeated squaring
RECURSIVE IntPow(_, _)
IntPow(x, k) ==
  IF k = 0 THEN One
  ELSE IF k % 2 = 0 THEN Square(IntPow(x, k \div 2))
  ELSE NumMul(x, IntPow(x, k - 1))

\* x ** k for an integer k
PowInt(x, k) == IF k >= 0 THEN IntPow(x, k) ELSE NumDiv(One, IntPow(x, -k))
\* x ** y for x > 0 and a non-integer y whose floor is fl
PowFrac(x, y, fl) ==
  NumMul(PowInt(x, fl),
         NumAdd(One, NumMul(NumSub(y, Num(fl)), NumSub(x, One))))

\* x ** y (Math.pow).  An integer exponent is exact.  For a positive base and
\* a non-integer exponent the result is irrational in general; the model
\* computes x^floor(y) * (1 + (y - floor(y)) * (x - 1)), which is positive,
\* monotone in y and exact at the integer exponents on both sides.
Pow(x, y) ==
  IF IsNaN(y) THEN NaN
  ELSE IF y = Zero THEN One
  ELSE IF IsNaN(x) THEN NaN
  ELSE IF IsInf(y) THEN
    (IF Abs(x) = One THEN NaN
     ELSE IF Lt(One, Abs(x)) = (y = PosInf) THEN PosInf ELSE Zero)
  ELSE IF IsInf(x) THEN
    (IF Sign(y) < 0 THEN Zero
     ELSE IF x = NegInf /\ IsInteger(y) /\ y[1] % 2 = 1 THEN NegInf ELSE PosInf)
  ELSE IF IsInteger(y) THEN PowInt(x, y[1])
  ELSE IF Sign(x) < 0 THEN NaN
  ELSE IF Sign(x) = 0 THEN (IF Sign(y) > 0 THEN Zero ELSE PosInf)
  ELSE PowFrac(x, y, y[1] \div y[2])

\* Math.log.  The logarithm is irrational except at 1; the model computes the
\* approximant 2(x - 1)/(x + 1), which has the sign of ln x, is zero exactly
\* at 1 and is monotone.
Ln(x) ==
  IF IsNaN(x) \/ Sign(x) < 0 THEN NaN
  ELSE IF x = Zero THEN NegInf
  ELSE IF x = PosInf THEN PosInf
  ELSE NumDiv(NumMul(Num(2), NumSub(x, One)), NumAdd(x, One))

\* Math.exp.  e is irrational; the model computes Pow(3, x), which is 1 at 0,
\* monotone, overflows to +Infinity for a large x and underflows to 0.
Exp(x) == Pow(<<3, 1>>, x)

\* Math.tanh, from the model's Exp: (e^2x - 1)/(e^2x + 1), saturating at 1.
TanhOf(e2) ==
  IF IsNaN(e2) THEN NaN
  ELSE IF e2 = PosInf THEN One
  ELSE NumDiv(NumSub(e2, One), NumAdd(e2, One))
Tanh(x) == TanhOf(Exp(NumMul(Num(2), x)))

\* Number.EPSILON, scaled to the modelled number format.
EPSILON == <<1, 16>>

\* -------------------------------------------------------------------- heap
\* A Value object.  computeGradient is not a field: the closure a builder
\* attaches is determined by the node's operation tag and children (see
\* computeGradient below).  label is only read by the visualizer.
Value(id, data, children, operation) ==
  [id |-> id, data |-> data, grad |-> Zero, children |-> children,
   operation |-> operation, higherOrderGrads |-> << >>]

Ok(nodes, counter, ret) ==
  [nodes |-> nodes, counter |-> counter, ret |-> ret, err |-> ""]
\* a failure that also zeroes the grad of every Value
FailClearing(nodes, counter, msg) ==
  [nodes |-> [i \in DOMAIN nodes |-> [nodes[i] EXCEPT !.grad = <<0, 1>>]],
   counter |-> counter, ret |-> 0, err |-> msg]

Fail(nodes, counter, msg) ==
  [nodes |-> nodes, counter |-> counter, ret |-> 0, err |-> msg]

\* new Value(data, label, children, operation): validates, then takes the
\* next id.  h is any record with the fields nodes and counter.
\* the constructor leaving the instance counter as it was
ConstructSameCounter(h, data, children, operation) ==
  IF ~IsFinite(data)
    THEN Fail(h.nodes, h.counter, "Value must be a finite number")
    ELSE Ok(Append(h.nodes, Value(h.counter, data, children, operation)),
            h.counter, Len(h.nodes) + 1)

Construct(h, data, children, operation) ==
  IF ~IsFinite(data)
    THEN Fail(h.nodes, h.counter, "Value must be a finite number")
    ELSE Ok(Append(h.nodes, Value(h.counter, data, children, operation)),
            h.counter + 1, Len(h.nodes) + 1)

\* Value.from copying a Value it is given into a new leaf
fromCopy(h, o) ==
  IF o[1] = "node"
    THEN [nodes |-> Append(h.nodes, [h.nodes[o[2]] EXCEPT !.id = h.counter]),
          counter |-> h.counter + 1, ret |-> Len(h.nodes) + 1, err |-> ""]
  ELSE IF o[2][2] = 0
    THEN [nodes |-> h.nodes, counter |-> h.counter, ret |-> 0,
          err |-> "Value must be a finite number"]
    ELSE [nodes |-> Append(h.nodes,
                      [id |-> h.counter, data |-> o[2], grad |-> <<0, 1>>,
                       children |-> << >>, operation |-> "+",
                       higherOrderGrads |-> << >>]),
          counter |-> h.counter + 1, ret |-> Len(h.nodes) + 1, err |-> ""]

\* An operand is <<"node", i>> (the Value at heap index i) or <<"num", x>>.
\* Value.from: a Value passes through, a number becomes a fresh leaf.
from(h, o) ==
  IF o[1] = "node" THEN Ok(h.nodes, h.counter, o[2])
  ELSE IF ~IsFinite(o[2])
    THEN Fail(h.nodes, h.counter, "Value must be a finite number")
    ELSE Construct(h, o[2], << >>, "+")

\* ---------------------------------------------------------------- builders
sigmoid(h, a) ==
  LET ra == from(h, a) IN
  IF ra.err # "" THEN ra
  ELSE Construct(ra,
         NumDiv(One, NumAdd(One, Exp(Neg(ra.nodes[ra.ret].data)))),
         <<ra.ret>>, "sigmoid")

relu(h, a) ==
  LET ra == from(h, a) IN
  IF ra.err # "" THEN ra
  ELSE Construct(ra, NumMax(Zero, ra.nodes[ra.ret].data), <<ra.ret>>, "relu")

log(h, a) ==
  LET ra == from(h, a) IN
  IF ra.err # "" THEN ra
  ELSE IF Le(ra.nodes[ra.ret].data, Zero)
    THEN Fail(ra.nodes, ra.counter, "Log of non-positive number")
  ELSE Construct(ra, Ln(ra.nodes[ra.ret].data), <<ra.ret>>, "log")

negate(h, a) ==
  LET ra == from(h, a) IN
  IF ra.err # "" THEN ra
  ELSE Construct(ra, NumMul(ra.nodes[ra.ret].data, Num(-1)), <<ra.ret>>, "neg")

add(h, a, b) ==
  LET ra == from(h, a) IN
  IF ra.err # "" THEN ra ELSE
  LET rb == from(ra, b) IN
  IF rb.err # "" THEN rb
  ELSE Construct(rb, NumAdd(rb.nodes[ra.ret].data, rb.nodes[rb.ret].data),
                 <<ra.ret, rb.ret>>, "add")

sub(h, a, b) ==
  LET ra == from(h, a) IN
  IF ra.err # "" THEN ra ELSE
  LET rb == from(ra, b) IN
  IF rb.err # "" THEN rb
  ELSE Construct(rb, NumSub(rb.nodes[ra.ret].data, rb.nodes[rb.ret].data),
                 <<ra.ret, rb.ret>>, "sub")

mul(h, a, b) ==
  LET ra == from(h, a) IN
  IF ra.err # "" THEN ra ELSE
  LET rb == from(ra, b) IN
  IF rb.err # "" THEN rb
  ELSE Construct(rb, NumMul(rb.nodes[ra.ret].data, rb.nodes[rb.ret].data),
                 <<ra.ret, rb.ret>>, "mul")

\* div rejecting a divisor at the threshold as well
divInclusive(h, a, b) ==
  LET ra == from(h, a) IN
  IF ra.err # "" THEN ra ELSE
  LET rb == from(ra, b) IN
  IF rb.err # "" THEN rb
  ELSE IF Le(Abs(rb.nodes[rb.ret].data), EPSILON)
    THEN Fail(rb.nodes, rb.counter, "Division by near-zero value")
  ELSE Construct(rb, NumDiv(rb.nodes[ra.ret].data, rb.nodes[rb.ret].data),
                 <<ra.ret, rb.ret>>, "div")

div(h, a, b) ==
  LET ra == from(h, a) IN
  IF ra.err # "" THEN ra ELSE
  LET rb == from(ra, b) IN
  IF rb.err # "" THEN rb
  ELSE IF Lt(Abs(rb.nodes[rb.ret].data), EPSILON)
    THEN Fail(rb.nodes, rb.counter, "Division by near-zero value")
  ELSE Construct(rb, NumDiv(rb.nodes[ra.ret].data, rb.nodes[rb.ret].data),
                 <<ra.ret, rb.ret>>, "div")

exp(h, a) ==
  LET ra == from(h, a) IN
  IF ra.err # "" THEN ra
  ELSE Construct(ra, Exp(ra.nodes[ra.ret].data), <<ra.ret>>, "exp")

\* pow's domain policy with a zero base and a positive exponent giving 1
powCheckedZeroBaseOne(rb, ia, ib, result) ==
  IF rb.nodes[ia].data = Zero THEN
    (IF rb.nodes[ib].data = Zero
       THEN Fail(rb.nodes, rb.counter, "Cannot raise 0 to zero or negative power")
     ELSE IF Lt(rb.nodes[ib].data, Zero)
       THEN Fail(rb.nodes, rb.counter, "Division by zero in power operation")
     ELSE Construct(rb, One, << >>, "+"))
  ELSE IF Lt(rb.nodes[ia].data, Zero) /\ ~IsInteger(rb.nodes[ib].data)
    THEN Fail(rb.nodes, rb.counter,
              "Negative numbers cannot be raised to non-integer powers")
  ELSE IF ~IsFinite(result)
    THEN Fail(rb.nodes, rb.counter, "Power operation resulted in overflow")
  ELSE Construct(rb, result, <<ia, ib>>, "pow")

\* pow's domain policy with no test of the exponent's sign at a zero base
powCheckedNoSignTest(rb, ia, ib, result) ==
  IF rb.nodes[ia].data = Zero THEN
    (IF rb.nodes[ib].data = Zero
       THEN Fail(rb.nodes, rb.counter, "Cannot raise 0 to zero or negative power")
     ELSE Construct(rb, Zero, << >>, "+"))
  ELSE IF Lt(rb.nodes[ia].data, Zero) /\ ~IsInteger(rb.nodes[ib].data)
    THEN Fail(rb.nodes, rb.counter,
              "Negative numbers cannot be raised to non-integer powers")
  ELSE IF ~IsFinite(result)
    THEN Fail(rb.nodes, rb.counter, "Power operation resulted in overflow")
  ELSE Construct(rb, result, <<ia, ib>>, "pow")

\* The body of pow after the coercions: rb is the heap they left, ia and ib
\* the operands, result is valueA.data ** valueB.data.  With a zero base and
\* a positive exponent the constructor alone builds the result, so it has no
\* children, the default operation tag and the no-op closure.
powChecked(rb, ia, ib, result) ==
  IF rb.nodes[ia].data = Zero THEN
    (IF rb.nodes[ib].data = Zero
       THEN Fail(rb.nodes, rb.counter, "Cannot raise 0 to zero or negative power")
     ELSE IF Lt(rb.nodes[ib].data, Zero)
       THEN Fail(rb.nodes, rb.counter, "Division by zero in power operation")
     ELSE Construct(rb, Zero, << >>, "+"))
  ELSE IF Lt(rb.nodes[ia].data, Zero) /\ ~IsInteger(rb.nodes[ib].data)
    THEN Fail(rb.nodes, rb.counter,
              "Negative numbers cannot be raised to non-integer powers")
  ELSE IF ~IsFinite(result)
    THEN Fail(rb.nodes, rb.counter, "Power operation resulted in overflow")
  ELSE Construct(rb, result, <<ia, ib>>, "pow")

pow(h, a, b) ==
  LET ra == from(h, a) IN
  IF ra.err # "" THEN ra ELSE
  LET rb == from(ra, b) IN
  IF rb.err # "" THEN rb
  ELSE powChecked(rb, ra.ret, rb.ret,
                  Pow(rb.nodes[ra.ret].data, rb.nodes[rb.ret].data))

tanh(h, a) ==
  LET ra == from(h, a) IN
  IF ra.err # "" THEN ra
  ELSE Construct(ra, Tanh(ra.nodes[ra.ret].data), <<ra.ret>>, "tanh")

\* ---------------------------------------------------------- gradient rules
\* The grad setter behind "x.grad += term": the sum is validated, and a
\* non-finite sum throws and stores nothing.  r is [nodes, err]; a rule that
\* has thrown executes no further statement.
SetGradOf(ns, i, g) ==
  IF IsFinite(g)
    THEN [nodes |-> [ns EXCEPT ![i].grad = g], err |-> ""]
    ELSE [nodes |-> ns, err |-> "Value must be a finite number"]
Accumulate(r, i, term) ==
  IF r.err # "" THEN r
  ELSE SetGradOf(r.nodes, i, NumAdd(r.nodes[i].grad, term))

\* "x.#grad += term": the private field, written without validation.
AccumulateRaw(r, i, term) ==
  IF r.err # "" THEN r
  ELSE [nodes |-> [r.nodes EXCEPT ![i].grad = NumAdd(r.nodes[i].grad, term)],
        err |-> ""]

\* The closures the builders attach, one per builder.  v is the node the
\* closure belongs to, valueA and valueB its operands.  The statements of a
\* closure run in order, each through Accumulate.  The terms are computed
\* from the heap the closure starts from: a closure writes only the grad of
\* v's children, and reads only data and v.grad (v is not its own child), so
\* its first statement changes no term of its second.
Started(nodes) == [nodes |-> nodes, err |-> ""]
valueA(nodes, v) == nodes[v].children[1]
valueB(nodes, v) == nodes[v].children[2]

sigmoidGradient(nodes, v) ==
  Accumulate(Started(nodes), valueA(nodes, v),
    NumMul(NumMul(nodes[v].data, NumSub(One, nodes[v].data)), nodes[v].grad))

\* relu's closure with the test "valueA.data >= 0" in place of "> 0"
reluGradientAtZero(nodes, v) ==
  Accumulate(Started(nodes), valueA(nodes, v),
    NumMul(IF Ge(nodes[valueA(nodes, v)].data, Zero) THEN One ELSE Zero,
           nodes[v].grad))

reluGradient(nodes, v) ==
  Accumulate(Started(nodes), valueA(nodes, v),
    NumMul(IF Gt(nodes[valueA(nodes, v)].data, Zero) THEN One ELSE Zero,
           nodes[v].grad))

logGradient(nodes, v) ==
  Accumulate(Started(nodes), valueA(nodes, v),
    NumMul(NumDiv(One, nodes[valueA(nodes, v)].data), nodes[v].grad))

negateGradient(nodes, v) ==
  Accumulate(Started(nodes), valueA(nodes, v), NumMul(Num(-1), nodes[v].grad))

addGradient(nodes, v) ==
  Accumulate(
    Accumulate(Started(nodes), valueA(nodes, v), NumMul(One, nodes[v].grad)),
    valueB(nodes, v), NumMul(One, nodes[v].grad))

subGradient(nodes, v) ==
  Accumulate(
    Accumulate(Started(nodes), valueA(nodes, v), NumMul(One, nodes[v].grad)),
    valueB(nodes, v), NumMul(Num(-1), nodes[v].grad))

mulGradient(nodes, v) ==
  Accumulate(
    Accumulate(Started(nodes), valueA(nodes, v),
      NumMul(nodes[valueB(nodes, v)].data, nodes[v].grad)),
    valueB(nodes, v),
    NumMul(nodes[valueA(nodes, v)].data, nodes[v].grad))

divGradient(nodes, v) ==
  Accumulate(
    Accumulate(Started(nodes), valueA(nodes, v),
      NumMul(NumDiv(One, nodes[valueB(nodes, v)].data), nodes[v].grad)),
    valueB(nodes, v),
    NumMul(NumDiv(Neg(nodes[valueA(nodes, v)].data),
                  NumMul(nodes[valueB(nodes, v)].data,
                         nodes[valueB(nodes, v)].data)),
           nodes[v].grad))

expGradient(nodes, v) ==
  Accumulate(Started(nodes), valueA(nodes, v),
    NumMul(nodes[v].data, nodes[v].grad))

powGradient(nodes, v) ==
  IF Le(Abs(nodes[valueA(nodes, v)].data), EPSILON) THEN
    (IF Le(nodes[valueB(nodes, v)].data, Zero)
       THEN [nodes |-> nodes, err |-> "Cannot raise 0 to zero or negative power"]
       ELSE Accumulate(Accumulate(Started(nodes), valueA(nodes, v), Zero),
                       valueB(nodes, v), Zero))
  ELSE
    Accumulate(
      Accumulate(Started(nodes), valueA(nodes, v),
        NumMul(NumMul(nodes[valueB(nodes, v)].data,
                      Pow(nodes[valueA(nodes, v)].data,
                          NumSub(nodes[valueB(nodes, v)].data, One))),
               nodes[v].grad)),
      valueB(nodes, v),
      NumMul(NumMul(Pow(nodes[valueA(nodes, v)].data, nodes[valueB(nodes, v)].data),
                    Ln(Abs(nodes[valueA(nodes, v)].data))),
             nodes[v].grad))

tanhGradient(nodes, v) ==
  AccumulateRaw(Started(nodes), valueA(nodes, v),
    NumMul(NumSub(One, Pow(nodes[v].data, Num(2))), nodes[v].grad))

\* node.#computeGradient(): the closure the builder of node v attached,
\* selected by v's operation tag.  A node built by the constructor alone (a
\* leaf, or the result of pow with a zero base) keeps the constructor's
\* no-op closure.
computeGradient(nodes, v) ==
  IF nodes[v].children = << >> THEN Started(nodes)
  ELSE CASE nodes[v].operation = "sigmoid" -> sigmoidGradient(nodes, v)
         [] nodes[v].operation = "relu" -> reluGradient(nodes, v)
         [] nodes[v].operation = "log" -> logGradient(nodes, v)
         [] nodes[v].operation = "neg" -> negateGradient(nodes, v)
         [] nodes[v].operation = "add" -> addGradient(nodes, v)
         [] nodes[v].operation = "sub" -> subGradient(nodes, v)
         [] nodes[v].operation = "mul" -> mulGradient(nodes, v)
         [] nodes[v].operation = "div" -> divGradient(nodes, v)
         [] nodes[v].operation = "exp" -> expGradient(nodes, v)
         [] nodes[v].operation = "pow" -> powGradient(nodes, v)
         [] nodes[v].operation = "tanh" -> tanhGradient(nodes, v)

\* -------------------------------------------------------------- traversals
\* Array.from(new Set(children)): the distinct children, first occurrence
\* first.
RECURSIVE Distinct(_, _)
Distinct(children, seen) ==
  IF children = << >> THEN << >>
  ELSE IF Head(children) \in seen THEN Distinct(Tail(children), seen)
  ELSE <<Head(children)>> \o Distinct(Tail(children), seen \cup {Head(children)})

prev(node) == Distinct(node.children, {})

\* topoSort of backward: depth-first over prev(), visited by id, a node
\* pushed after its children.  st is [visited, stack].
RECURSIVE topoSort(_, _, _)
RECURSIVE topoSortEach(_, _, _)
\* topoSort pushing a node before its children
topoSortPreorder(nodes, n, st) ==
  IF nodes[n].id \in st.visited THEN st
  ELSE topoSortEach(nodes, prev(nodes[n]),
         [visited |-> st.visited \cup {nodes[n].id}, stack |-> Append(st.stack, n)])

\* topoSort without the visited test
topoSortRevisiting(nodes, n, st) ==
  [topoSortEach(nodes, nodes[n].children,
                [st EXCEPT !.visited = @ \cup {nodes[n].id}])
     EXCEPT !.stack = Append(@, n)]

topoSort(nodes, n, st) ==
  IF nodes[n].id \in st.visited THEN st
  ELSE [topoSortEach(nodes, prev(nodes[n]),
                      [st EXCEPT !.visited = @ \cup {nodes[n].id}])
          EXCEPT !.stack = Append(@, n)]
topoSortEach(nodes, cs, st) ==
  IF cs = << >> THEN st
  ELSE topoSortEach(nodes, Tail(cs), topoSort(nodes, Head(cs), st))

\* The helper of resetGrad, clipGradients and checkGradientHealth: depth-first
\* over children (duplicates included), visited by id, a node handled when it
\* is first met and before its children.  The result lists the nodes in the
\* order they are handled.  st is [visited, order].
\* walk that handles the node it is given and does not descend
walkRootOnly(nodes, n, st) ==
  IF nodes[n].id \in st.visited THEN st
  ELSE [visited |-> st.visited \cup {nodes[n].id}, order |-> Append(st.order, n)]

RECURSIVE walk(_, _, _)
RECURSIVE walkEach(_, _, _)
\* walk without the visited test
walkRevisiting(nodes, n, st) ==
  walkEach(nodes, nodes[n].children,
    [visited |-> st.visited \cup {nodes[n].id}, order |-> Append(st.order, n)])

walk(nodes, n, st) ==
  IF nodes[n].id \in st.visited THEN st
  ELSE walkEach(nodes, nodes[n].children,
         [visited |-> st.visited \cup {nodes[n].id}, order |-> Append(st.order, n)])
walkEach(nodes, cs, st) ==
  IF cs = << >> THEN st
  ELSE walkEach(nodes, Tail(cs), walk(nodes, Head(cs), st))

\* the traversal handling every node of the heap, reachable or not
HandledEveryNode(nodes, root) == [i \in 1..Len(nodes) |-> i]

Handled(nodes, root) == walk(nodes, root, [visited |-> {}, order |-> << >>]).order

\* Map.set(k, v)
MapSet(m, k, v) == [x \in (DOMAIN m) \cup {k} |-> IF x = k THEN v ELSE m[x]]
\* Map.get(k) ?? 0
MapGet(m, k) == IF k \in DOMAIN m THEN m[k] ELSE Zero

\* ----------------------------------------------------------------- backward
\* backward(order) returns [nodes, err, fired]: the heap it leaves, the error
\* it threw ("" if none) and the nodes whose computeGradient it invoked, in
\* invocation order (nested calls included).
RECURSIVE backward(_, _, _)
RECURSIVE backwardLoop(_, _, _, _)
RECURSIVE backwardOrders(_, _, _, _, _)
RECURSIVE afterRule(_, _, _, _, _)
RECURSIVE afterOrders(_, _, _)
RECURSIVE afterNested(_, _, _, _, _)
\* backward seeding the root before it tests the order
backwardSeedFirst(nodes, root, order) ==
  IF order < 1
    THEN [nodes |-> [nodes EXCEPT ![root].grad = One],
          err |-> "Order must be >= 1", fired |-> << >>]
    ELSE backwardLoop([nodes EXCEPT ![root].grad = One],
           topoSort(nodes, root, [visited |-> {}, stack |-> << >>]).stack,
           order, << >>)

\* backward adding the seed to the root's grad instead of storing it
backwardAddingSeed(nodes, root, order) ==
  IF order < 1
    THEN [nodes |-> nodes, err |-> "Order must be >= 1", fired |-> << >>]
    ELSE backwardLoop([nodes EXCEPT ![root].grad = NumAdd(@, One)],
           topoSort(nodes, root, [visited |-> {}, stack |-> << >>]).stack,
           order, << >>)

\* backward zeroing the grad of every node it will visit before it starts
backwardClearing(nodes, root, order) ==
  IF order < 1
    THEN [nodes |-> nodes, err |-> "Order must be >= 1", fired |-> << >>]
    ELSE \* every node on the stack restarts from 0, the root from the seed
      LET stack == topoSort(nodes, root, [visited |-> {}, stack |-> << >>]).stack
          onStack == {stack[p] : p \in DOMAIN stack}
      IN backwardLoop(
           [i \in DOMAIN nodes |->
              IF i = root THEN [nodes[i] EXCEPT !.grad = One]
              ELSE IF i \in onStack THEN [nodes[i] EXCEPT !.grad = Zero]
              ELSE nodes[i]],
           stack, order, << >>)

backward(nodes, root, order) ==
  IF order < 1
    THEN [nodes |-> nodes, err |-> "Order must be >= 1", fired |-> << >>]
    ELSE backwardLoop([nodes EXCEPT ![root].grad = One],
           topoSort(nodes, root, [visited |-> {}, stack |-> << >>]).stack,
           order, << >>)
\* while (stack.length > 0) { node = stack.pop(); ... }
backwardLoop(nodes, stack, order, fired) ==
  IF stack = << >> THEN [nodes |-> nodes, err |-> "", fired |-> fired]
  ELSE afterRule(computeGradient(nodes, stack[Len(stack)]), stack[Len(stack)],
                 SubSeq(stack, 1, Len(stack) - 1), order,
                 Append(fired, stack[Len(stack)]))
\* the rest of the loop body, r being what node's computeGradient left
\* the loop body storing no cache entry for order 1
afterRuleNoFirstEntry(r, node, rest, order, fired) ==
  IF r.err # "" THEN [nodes |-> r.nodes, err |-> r.err, fired |-> fired]
  ELSE IF order > 1 THEN
    afterOrders(backwardOrders(r.nodes, node, 2, order, fired), rest, order)
  ELSE backwardLoop(r.nodes, rest, order, fired)

afterRule(r, node, rest, order, fired) ==
  IF r.err # "" THEN [nodes |-> r.nodes, err |-> r.err, fired |-> fired]
  ELSE IF order > 1 THEN
    afterOrders(
      backwardOrders(
        [r.nodes EXCEPT ![node].higherOrderGrads = MapSet(@, 1, r.nodes[node].grad)],
        node, 2, order, fired),
      rest, order)
  ELSE backwardLoop(r.nodes, rest, order, fired)
afterOrders(r, rest, order) ==
  IF r.err # "" THEN r ELSE backwardLoop(r.nodes, rest, order, r.fired)
\* for (let i = 2; i <= order; i++) { node.backward(i - 1); set(i, node.grad) }
\* the loop over the orders storing node.grad without the nested backward
backwardOrdersNoNested(nodes, node, i, order, fired) ==
  IF i > order THEN [nodes |-> nodes, err |-> "", fired |-> fired]
  ELSE backwardOrders(
         [nodes EXCEPT ![node].higherOrderGrads = MapSet(@, i, nodes[node].grad)],
         node, i + 1, order, fired)

backwardOrders(nodes, node, i, order, fired) ==
  IF i > order THEN [nodes |-> nodes, err |-> "", fired |-> fired]
  ELSE afterNested(backward(nodes, node, i - 1), node, i, order, fired)
afterNested(rb, node, i, order, fired) ==
  IF rb.err # ""
    THEN [nodes |-> rb.nodes, err |-> rb.err, fired |-> fired \o rb.fired]
    ELSE backwardOrders(
           [rb.nodes EXCEPT ![node].higherOrderGrads =
              MapSet(@, i, rb.nodes[node].grad)],
           node, i + 1, order, fired \o rb.fired)

\* getHigherOrderGradient(order): [ret, err]
\* getHigherOrderGradient answering order 1 from grad when the cache has no entry
getHigherOrderGradientOrGrad(nodes, n, order) ==
  IF order < 1 THEN [ret |-> Zero, err |-> "Order must be >= 1"]
  ELSE IF order = 1 /\ 1 \notin DOMAIN nodes[n].higherOrderGrads
    THEN [ret |-> nodes[n].grad, err |-> ""]
  ELSE [ret |-> MapGet(nodes[n].higherOrderGrads, order), err |-> ""]

getHigherOrderGradient(nodes, n, order) ==
  IF order < 1 THEN [ret |-> Zero, err |-> "Order must be >= 1"]
  ELSE [ret |-> MapGet(nodes[n].higherOrderGrads, order), err |-> ""]

\* ---------------------------------------------------------- graph utilities
\* resetEach that zeroes grad and leaves the cache as it is
RECURSIVE resetEachGradOnly(_, _)
resetEachGradOnly(nodes, order) ==
  IF order = << >> THEN nodes
  ELSE resetEachGradOnly([nodes EXCEPT ![Head(order)].grad = Zero], Tail(order))

\* resetGrad: every handled node gets grad 0 and an empty cache.
RECURSIVE resetEach(_, _)
resetEach(nodes, order) ==
  IF order = << >> THEN nodes
  ELSE resetEach([nodes EXCEPT ![Head(order)].grad = Zero,
                               ![Head(order)].higherOrderGrads = << >>],
                 Tail(order))
resetGrad(nodes, root) == resetEach(nodes, Handled(nodes, root))

\* clipGradients(maxNorm): [nodes, err].  "node.grad *= maxNorm / gradNorm"
\* goes through the validating setter, so a non-finite product throws and
\* ends the traversal.
RECURSIVE clipEach(_, _, _)
RECURSIVE afterClip(_, _, _)
\* clipEach that assigns maxNorm itself to a grad beyond it
clipEachUnsigned(nodes, order, maxNorm) ==
  IF order = << >> THEN [nodes |-> nodes, err |-> ""]
  ELSE IF Gt(Abs(nodes[Head(order)].grad), maxNorm) THEN
    afterClip(SetGradOf(nodes, Head(order), maxNorm), Tail(order), maxNorm)
  ELSE clipEach(nodes, Tail(order), maxNorm)

clipEach(nodes, order, maxNorm) ==
  IF order = << >> THEN [nodes |-> nodes, err |-> ""]
  ELSE IF Gt(Abs(nodes[Head(order)].grad), maxNorm) THEN
    afterClip(
      SetGradOf(nodes, Head(order),
        NumMul(nodes[Head(order)].grad,
               NumDiv(maxNorm, Abs(nodes[Head(order)].grad)))),
      Tail(order), maxNorm)
  ELSE clipEach(nodes, Tail(order), maxNorm)
afterClip(r, rest, maxNorm) ==
  IF r.err # "" THEN r ELSE clipEach(r.nodes, rest, maxNorm)
clipGradients(nodes, root, maxNorm) == clipEach(nodes, Handled(nodes, root), maxNorm)

\* checkGradientHealth(): the report record.
RECURSIVE checkEach(_, _, _)
checkEach(nodes, order, acc) ==
  IF order = << >> THEN acc
  ELSE LET g == nodes[Head(order)].grad
       IN  checkEach(nodes, Tail(order),
             IF g # Zero
               THEN [maxGrad |-> NumMax(acc.maxGrad, Abs(g)),
                     minGrad |-> NumMin(acc.minGrad, Abs(g))]
               ELSE acc)
\* checkGradientHealth whose flags include the thresholds themselves
checkGradientHealthInclusive(nodes, root) ==
  LET acc == checkEach(nodes, Handled(nodes, root),
                       [maxGrad |-> NegInf, minGrad |-> PosInf])
  IN  [hasExploding |-> Ge(acc.maxGrad, Num(1000)),
       hasVanishing |-> Le(acc.minGrad, <<1, 1000>>),
       maxGrad |-> acc.maxGrad,
       minGrad |-> acc.minGrad]

checkGradientHealth(nodes, root) ==
  LET acc == checkEach(nodes, Handled(nodes, root),
                       [maxGrad |-> NegInf, minGrad |-> PosInf])
  IN  [hasExploding |-> Gt(acc.maxGrad, Num(1000)),
       hasVanishing |-> Lt(acc.minGrad, <<1, 1000>>),
       maxGrad |-> acc.maxGrad,
       minGrad |-> acc.minGrad]

\* ------------------------------------------------------------------- state
VARIABLES
  nodes,            \* the Value objects created so far, in creation order
  instanceCounter,  \* Value.#instanceCounter
  call,             \* the last call made: [op, args, err, ret]
  history,          \* the calls made other than constructor and builder
                    \* calls, oldest first, each <<op, args>>
  origin            \* origin[i]: the call that created nodes[i], <<op, args>>

vars == <<nodes, instanceCounter, history, origin, call>>

Heap == [nodes |-> nodes, counter |-> instanceCounter]
NodeIds == 1..Len(nodes)
\* The last Value created, if any.
Last == {i \in NodeIds : i = Len(nodes)}
\* The operands a caller can pass: a Value it holds, or a number of S.
Refs == {<<"node", i>> : i \in NodeIds}
Raw(S) == {<<"num", x>> : x \in S}
\* The Values the caller constructed itself.
Leaves == {<<"node", i>> : i \in {k \in NodeIds : origin[k][1] = "new"}}

Init ==
  /\ nodes = << >>
  /\ instanceCounter = 0
  /\ call = [op |-> "init", args |-> << >>, err |-> "", ret |-> 0]
  /\ history = << >>
  /\ origin = << >>

\* The effect of a constructor or builder call whose result is r.  The
\* Values it created through Value.from have origin "from"; the Value it
\* returns has the call itself as origin.
Built(op, args, result) ==
  \E r \in {result} :
  /\ nodes' = r.nodes
  /\ instanceCounter' = r.counter
  /\ call' = [op |-> op, args |-> args, err |-> r.err, ret |-> r.ret]
  /\ origin' = [i \in 1..Len(r.nodes) |->
                  IF i <= Len(nodes) THEN origin[i]
                  ELSE IF i = r.ret THEN <<op, args>>
                  ELSE <<"from", args>>]
  /\ UNCHANGED history

\* The effect of any other call, leaving the heap ns, throwing err (or "")
\* and returning ret.
Called(op, args, ns, err, ret) ==
  /\ nodes' = ns
  /\ call' = [op |-> op, args |-> args, err |-> err, ret |-> ret]
  /\ history' = Append(history, <<op, args>>)
  /\ UNCHANGED <<instanceCounter, origin>>

\* ----------------------------------------------------------------- actions
\* new Value(d) for a number d of S
NewValue(S) ==
  \E d \in S : Built("new", <<d>>, Construct(Heap, d, << >>, "+"))

\* The builders, applied to operands of O.
Sigmoid(O) == \E a \in O : Built("sigmoid", <<a>>, sigmoid(Heap, a))
Relu(O) == \E a \in O : Built("relu", <<a>>, relu(Heap, a))
Log(O) == \E a \in O : Built("log", <<a>>, log(Heap, a))
Negate(O) == \E a \in O : Built("neg", <<a>>, negate(Heap, a))
ExpOp(O) == \E a \in O : Built("exp", <<a>>, exp(Heap, a))
TanhOp(O) == \E a \in O : Built("tanh", <<a>>, tanh(Heap, a))
Add(O) == \E a \in O, b \in O : Built("add", <<a, b>>, add(Heap, a, b))
Sub(O) == \E a \in O, b \in O : Built("sub", <<a, b>>, sub(Heap, a, b))
Mul(O) == \E a \in O, b \in O : Built("mul", <<a, b>>, mul(Heap, a, b))
Div(O) == \E a \in O, b \in O : Built("div", <<a, b>>, div(Heap, a, b))
PowOp(O) == \E a \in O, b \in O : Built("pow", <<a, b>>, pow(Heap, a, b))

\* node.data = x and node.grad = x for a node of R and a number x of S: the
\* validating setters
SetData(R, S) ==
  \E i \in R, x \in S :
    IF IsFinite(x)
      THEN Called("setData", <<i, x>>, [nodes EXCEPT ![i].data = x], "", 0)
      ELSE Called("setData", <<i, x>>, nodes, "Value must be a finite number", 0)
SetGrad(R, S) ==
  \E i \in R, x \in S :
    IF IsFinite(x)
      THEN Called("setGrad", <<i, x>>, [nodes EXCEPT ![i].grad = x], "", 0)
      ELSE Called("setGrad", <<i, x>>, nodes, "Value must be a finite number", 0)

\* root.backward(order) for a root of R and an order of S
\* backward that restores every grad when a rule fails
BackwardTransactional(R, S) ==
  \E root \in R, order \in S :
    \E r \in {backward(nodes, root, order)} :
      Called("backward", <<root, order>>,
             IF r.err = "" THEN r.nodes ELSE nodes, r.err, r.fired)

Backward(R, S) ==
  \E root \in R, order \in S :
    \E r \in {backward(nodes, root, order)} :
      Called("backward", <<root, order>>, r.nodes, r.err, r.fired)

\* root.resetGrad() for a root of R
ResetGrad(R) ==
  \E root \in R :
    \E ns \in {resetGrad(nodes, root)} :
      Called("resetGrad", <<root>>, ns, "", 0)

\* root.clipGradients(m) for a root of R and a number m of S
ClipGradients(R, S) ==
  \E root \in R, m \in S :
    \E r \in {clipGradients(nodes, root, m)} :
      Called("clipGradients", <<root, m>>, r.nodes, r.err, 0)

\* root.checkGradientHealth() for a root of R
CheckGradientHealth(R) ==
  \E root \in R :
    \E report \in {checkGradientHealth(nodes, root)} :
      Called("checkGradientHealth", <<root>>, nodes, "", report)

\* n.getHigherOrderGradient(order) for a node of R and an order of S
GetHigherOrderGradient(R, S) ==
  \E n \in R, order \in S :
    \E r \in {getHigherOrderGradient(nodes, n, order)} :
      Called("getHigherOrderGradient", <<n, order>>, nodes, r.err, r.ret)

\* ---------------------------------------------------------- specifications
\* A specification bounds the heap and the number of non-builder calls, and
\* draws the callers' numbers from a small set.
Fits(n, c) == Len(nodes') <= n /\ Len(history') <= c
Building == history = << >>

\* Every operation of the class: a graph is built, then calls are made on
\* the last Value created.
Data == {Num(-2), Num(3)}
Next ==
  /\ \/ Building /\ NewValue(Data \cup {NaN})
     \/ Building /\ (Sigmoid(Refs) \/ Relu(Refs) \/ Log(Refs))
     \/ Building /\ (Negate(Refs) \/ ExpOp(Refs) \/ TanhOp(Refs))
     \/ Building /\ (Add(Refs) \/ Sub(Refs) \/ Mul(Refs))
     \/ Building /\ (Div(Refs) \/ PowOp(Refs))
     \/ SetData(Last, {Zero}) \/ SetGrad(Last, {Num(2)})
     \/ Backward(Last, 0..MaxOrder) \/ ResetGrad(Last)
     \/ ClipGradients(Last, {One}) \/ CheckGradientHealth(Last)
     \/ GetHigherOrderGradient(Last, 0..MaxOrder)
  /\ Fits(MaxNodes, MaxBackwards + 1)
Spec == Init /\ [][Next]_vars

\* Graphs over relu, neg, add, sub and mul, then root.backward().
RulesData == {Num(-2), Zero, Num(3)}
NextRules ==
  /\ \/ Building /\ NewValue(RulesData)
     \/ Building /\ Relu(Refs)
     \/ Building /\ Negate(Refs)
     \/ Building /\ Add(Refs)
     \/ Building /\ Sub(Refs)
     \/ Building /\ Mul(Refs)
     \/ Backward(Last, {1})
  /\ Fits(MaxNodes, MaxBackwards)
SpecRules == Init /\ [][NextRules]_vars

\* Graphs over add and mul, then a backward (first order or highest order)
\* and resetGrad calls on the root.
ResetData == {Num(3)}
NextReset ==
  /\ \/ Building /\ NewValue(ResetData)
     \/ Building /\ Add(Refs)
     \/ Building /\ Mul(Refs)
     \/ Backward(Last, {1, MaxOrder})
     \/ ResetGrad(Last)
  /\ Fits(MaxNodes, MaxBackwards + 1)
SpecReset == Init /\ [][NextReset]_vars

\* The same graphs, then first-order backward and resetGrad calls on the
\* root.
AgainData == {Num(-2), Num(3)}
NextAgain ==
  /\ \/ Building /\ NewValue(AgainData)
     \/ Building /\ Add(Refs)
     \/ Building /\ Mul(Refs)
     \/ Backward(Last, {1})
     \/ ResetGrad(Last)
  /\ Fits(MaxNodes, MaxCalls)
SpecAgain == Init /\ [][NextAgain]_vars

\* Graphs over add and mul, then backward and clipGradients calls on the
\* root, with a negative, a zero and a positive maxNorm.
ClipNorms == {Num(-1), Zero, Num(2)}
NextClip ==
  /\ \/ Building /\ NewValue(AgainData)
     \/ Building /\ Add(Refs)
     \/ Building /\ Mul(Refs)
     \/ Backward(Last, {1})
     \/ ClipGradients(Last, ClipNorms)
  /\ Fits(MaxNodes, MaxBackwards + 1)
SpecClip == Init /\ [][NextClip]_vars

\* Products of leaves whose data are zero, the two thresholds of the health
\* report and values beyond them, then backward and checkGradientHealth calls
\* on the root.
HealthData == {Zero, Num(1000), Num(-2000), <<1, 1000>>, <<-1, 2000>>}
NextHealth ==
  /\ \/ Building /\ NewValue(HealthData)
     \/ Building /\ Mul(Refs)
     \/ Backward(Last, {1})
     \/ CheckGradientHealth(Last)
  /\ Fits(MaxNodes, MaxBackwards + 1)
SpecHealth == Init /\ [][NextHealth]_vars

\* pow over leaves that are zero, negative, positive, fractional and large,
\* and over its own results.
PowData == {Zero, Num(-2), Num(3), <<5, 2>>, Num(64)}
NextPow ==
  /\ \/ NewValue(PowData)
     \/ PowOp(Refs)
  /\ Fits(MaxNodes, MaxCalls)
SpecPow == Init /\ [][NextPow]_vars

\* Powers of leaves 0 and 3 and sums over them, one node more than elsewhere
\* (two operands, their power and a consumer of it), then root.backward().
ZeroPowData == {Zero, Num(3)}
NextZeroPow ==
  /\ \/ Building /\ NewValue(ZeroPowData)
     \/ Building /\ PowOp(Leaves)
     \/ Building /\ Add(Refs)
     \/ Backward(Last, {1})
  /\ Fits(MaxNodes + 1, MaxBackwards)
SpecZeroPow == Init /\ [][NextZeroPow]_vars

\* Quotients of leaves that are zero, below the threshold, at it, above it
\* and the largest number, and of their quotients.
DivData == {Zero, <<-1, 32>>, EPSILON, <<1, 2>>, Num(MaxValue)}
NextDiv ==
  /\ \/ NewValue(DivData)
     \/ Div(Refs)
  /\ Fits(MaxNodes, MaxCalls)
SpecDiv == Init /\ [][NextDiv]_vars

\* Products of leaves, a backward from the root, and at any time builders
\* that can fail, applied to leaves: div (also by a raw 0, which is coerced
\* to a leaf first), log and pow; mul and pow overflow on the largest number.
FailData == {Zero, Num(MaxValue)}
NextFail ==
  /\ \/ Building /\ NewValue(FailData)
     \/ Building /\ Mul(Leaves)
     \/ Backward(Last, {1})
     \/ Div(Leaves \cup Raw({Zero}))
     \/ Log(Leaves)
     \/ PowOp(Leaves)
  /\ Fits(MaxNodes, MaxBackwards)
SpecFail == Init /\ [][NextFail]_vars

\* Graphs over add, mul and pow, then root.backward().
PathData == {EPSILON, Num(3)}
NextPath ==
  /\ \/ Building /\ NewValue(PathData)
     \/ Building /\ Add(Refs)
     \/ Building /\ Mul(Refs)
     \/ Building /\ PowOp(Refs)
     \/ Backward(Last, {1})
  /\ Fits(MaxNodes, MaxBackwards)
SpecPath == Init /\ [][NextPath]_vars

\* neg and add applied to Values and to raw numbers, finite and not, then
\* root.backward().
FromData == {Num(3)}
FromNumbers == {Num(-2), NaN}
NextFrom ==
  /\ \/ Building /\ NewValue(FromData)
     \/ Building /\ Negate(Refs \cup Raw({Num(-2), PosInf, NegInf}))
     \/ Building /\ Add(Refs \cup Raw(FromNumbers))
     \/ Backward(Last, {1})
  /\ Fits(MaxNodes, MaxBackwards)
SpecFrom == Init /\ [][NextFrom]_vars

\* Products of leaves, then backward and getHigherOrderGradient calls on
\* the root with orders below 1, 1 and 2.
OrderData == {Num(3)}
Orders == {-1, 0, 1, 2}
NextOrder ==
  /\ \/ Building /\ NewValue(OrderData)
     \/ Building /\ Mul(Refs)
     \/ Backward(Last, Orders)
     \/ GetHigherOrderGradient(Last, Orders)
  /\ Fits(MaxNodes, MaxBackwards + 1)
SpecOrder == Init /\ [][NextOrder]_vars

\* Products of two leaves, backward of order 1 and resetGrad on the root, and
\* getHigherOrderGradient on any node: no backward of a higher order.
NeverData == {Num(3)}
NextNever ==
  /\ \/ Building /\ NewValue(NeverData)
     \/ Building /\ Mul(Leaves)
     \/ Backward(Last, {1})
     \/ ResetGrad(Last)
     \/ GetHigherOrderGradient(NodeIds, {1, MaxOrder})
  /\ Fits(MaxNodes, MaxCalls)
SpecNever == Init /\ [][NextNever]_vars

\* Sums and products, then one backward of order MaxOrder or MaxOrder + 1 on
\* the root.
HigherData == {Num(-2), Num(3)}
NextHigher ==
  /\ \/ Building /\ NewValue(HigherData)
     \/ Building /\ Add(Refs)
     \/ Building /\ Mul(Refs)
     \/ Backward(Last, {MaxOrder, MaxOrder + 1})
  /\ Fits(MaxNodes, MaxBackwards)
SpecHigher == Init /\ [][NextHigher]_vars

\* tanh of a leaf consumed by products, a grad set by the caller, then
\* backward on the root.  The large values are one below the largest finite
\* number, so that adding 1 to them stays finite.
TanhData == {Zero, Num(MaxValue - 1)}
NextTanh ==
  /\ \/ Building /\ NewValue(TanhData)
     \/ Building /\ TanhOp(Leaves)
     \/ Building /\ Mul(Refs)
     \/ SetGrad(NodeIds, {Num(MaxValue - 1), PosInf})
     \/ Backward(Last, {1})
  /\ Fits(MaxNodes + 1, MaxBackwards + 1)
SpecTanh == Init /\ [][NextTanh]_vars

\* Products, grads set by the caller on any node, and backward from
\* any node, so that a root holds a grad from the caller or from an earlier
\* pass over one of its consumers.
SeedData == {Num(3)}
SeedGrads == {Num(5)}
NextSeed ==
  /\ \/ Building /\ NewValue(SeedData)
     \/ Building /\ Mul(Refs)
     \/ SetGrad(NodeIds, SeedGrads)
     \/ Backward(NodeIds, {1})
  /\ Fits(MaxNodes, MaxBackwards + 1)
SpecSeed == Init /\ [][NextSeed]_vars

\* Every builder, over leaves 0 and 3, earlier results and a raw number.
BuildData == {Zero, Num(3)}
NextBuild ==
  /\ \/ NewValue(BuildData)
     \/ Sigmoid(Refs)
     \/ Relu(Refs)
     \/ Log(Refs)
     \/ Negate(Refs)
     \/ ExpOp(Refs)
     \/ TanhOp(Refs)
     \/ Add(Refs \cup Raw({Num(-2)}))
     \/ Sub(Refs)
     \/ Mul(Refs)
     \/ Div(Refs)
     \/ PowOp(Refs)
  /\ Fits(MaxNodes, MaxCalls)
SpecBuild == Init /\ [][NextBuild]_vars

\* Constructor and builder calls that succeed or fail: a constructor given
\* NaN, add given a raw NaN, div by a raw 0 (which fails after the 0 has
\* been coerced to a leaf).
IdsData == {Num(3), NaN}
NextIds ==
  /\ \/ NewValue(IdsData)
     \/ Add(Refs \cup Raw({Num(-2), NaN}))
     \/ Div(Refs \cup Raw({Zero}))
  /\ Fits(MaxNodes, MaxCalls)
SpecIds == Init /\ [][NextIds]_vars

\* Powers of leaves with a tiny base and a negative exponent, products of
\* leaves and the latest node, a large grad set by the caller on one result,
\* then backward on the root: graphs on which a gradient rule throws, one
\* node more than elsewhere (two operands, their power or product and a
\* consumer of it).
NextPartial ==
  /\ \/ Building /\ NewValue({EPSILON, Num(-2)})
     \/ Building /\ PowOp(Leaves)
     \/ Building /\ Mul(Leaves \cup {<<"node", i>> : i \in Last})
     \/ Building /\ SetGrad({i \in NodeIds : nodes[i].children # << >>},
                             {Num(3000)})
     \/ Backward(Last, {1})
  /\ Fits(MaxNodes + 1, MaxBackwards + 1)
SpecPartial == Init /\ [][NextPartial]_vars

\* Products of two leaves, then backward, resetGrad, clipGradients and
\* checkGradientHealth called on the first node (a leaf, which reaches nothing
\* else) or on the latest one, so that nodes the call does not reach hold
\* grads and caches from an earlier call.
FirstAndLast == {i \in NodeIds : i = 1 \/ i = Len(nodes)}
NextFrame ==
  /\ \/ Building /\ NewValue({Num(3)})
     \/ Building /\ Mul(Leaves)
     \/ Backward(FirstAndLast, {1, MaxOrder})
     \/ ResetGrad(FirstAndLast)
     \/ ClipGradients(FirstAndLast, {<<1, 2>>})
     \/ CheckGradientHealth(FirstAndLast)
  /\ Fits(MaxNodes, MaxBackwards + 1)
SpecFrame == Init /\ [][NextFrame]_vars

\* ------------------------------------------------------------- properties
\* The nodes reachable from r through children, r included.
RECURSIVE Reach(_, _)
Reach(ns, r) ==
  {r} \cup UNION {Reach(ns, ns[r].children[s]) : s \in DOMAIN ns[r].children}

\* The partial derivative of node v with respect to its operand slot s, as
\* the table of operation rules states it.
Partial(ns, v, s) ==
  LET a == ns[ns[v].children[1]].data
      b == ns[ns[v].children[Len(ns[v].children)]].data
      op == ns[v].operation
  IN  CASE op = "add" -> One
        [] op = "sub" -> IF s = 1 THEN One ELSE Num(-1)
        [] op = "mul" -> IF s = 1 THEN b ELSE a
        [] op = "div" -> IF s = 1 THEN NumDiv(One, b)
                                  ELSE NumDiv(Neg(a), NumMul(b, b))
        [] op = "neg" -> Num(-1)
        [] op = "relu" -> IF Gt(a, Zero) THEN One ELSE Zero
        [] op = "pow" -> IF s = 1 THEN NumMul(b, Pow(a, NumSub(b, One)))
                                  ELSE NumMul(ns[v].data, Ln(Abs(a)))

\* The sum, over the paths from v down to n, of acc times the product of the
\* partials along the path.  A path chooses one operand slot at each node, so
\* an operand used in both slots contributes two paths.
RECURSIVE PathSum(_, _, _, _)
PathSum(ns, v, n, acc) ==
  IF v = n THEN acc
  ELSE IF Len(ns[v].children) = 0 THEN Zero
  ELSE IF Len(ns[v].children) = 1
    THEN PathSum(ns, ns[v].children[1], n, NumMul(Partial(ns, v, 1), acc))
  ELSE NumAdd(PathSum(ns, ns[v].children[1], n, NumMul(Partial(ns, v, 1), acc)),
              PathSum(ns, ns[v].children[2], n, NumMul(Partial(ns, v, 2), acc)))

\* root.backward() has just returned on a graph no other call has touched.
BackwardDone(r) ==
  /\ history = <<<<"backward", <<r, 1>>>>>>
  /\ call.err = ""

\* C1: after root.backward() on a freshly built graph, the grad of every node
\* reachable from the root is the sum over all paths from the root to the
\* node of the product of the local partial derivatives along the path.
C1_PathSum ==
  \A r \in NodeIds :
    BackwardDone(r) =>
      \A n \in Reach(nodes, r) : nodes[n].grad = PathSum(nodes, r, n, One)

\* Node v is the result of one operation applied to leaves the caller
\* constructed, two distinct ones if the operation is binary.
SingleOp(v) ==
  /\ nodes[v].children # << >>
  /\ \A s \in DOMAIN nodes[v].children : origin[nodes[v].children[s]][1] = "new"
  /\ Len(nodes[v].children) = 2 => nodes[v].children[1] # nodes[v].children[2]

\* C2: after backward on a single operation over distinct fresh leaves a and
\* b, (a.grad, b.grad) is (1, 1) for add, (1, -1) for sub, (b.data, a.data)
\* for mul, and a.grad is -1 for neg and, for relu, 1 if a.data > 0 and 0
\* otherwise.
C2_LocalRules ==
  \A v \in NodeIds :
    (BackwardDone(v) /\ SingleOp(v)) =>
      LET a == nodes[nodes[v].children[1]]
          b == nodes[nodes[v].children[Len(nodes[v].children)]]
          op == nodes[v].operation
      IN  /\ op = "add" => a.grad = <<1, 1>> /\ b.grad = <<1, 1>>
          /\ op = "sub" => a.grad = <<1, 1>> /\ b.grad = <<-1, 1>>
          /\ op = "mul" => a.grad = b.data /\ b.grad = a.data
          /\ op = "neg" => a.grad = <<-1, 1>>
          /\ op = "relu" => a.grad = (IF a.data[1] > 0 THEN <<1, 1>> ELSE <<0, 1>>)

\* backward has run on a product of two distinct leaves with different data
C2_Witness ==
  \E v \in NodeIds :
    /\ BackwardDone(v) /\ SingleOp(v)
    /\ nodes[v].operation = "mul"
    /\ nodes[nodes[v].children[1]].data # nodes[nodes[v].children[2]].data
    /\ nodes[nodes[v].children[1]].grad = nodes[nodes[v].children[2]].data

\* The last two calls were r.backward(order), for some order, and then
\* r.resetGrad().
BackwardThenReset(r) ==
  /\ Len(history) >= 2
  /\ history[Len(history) - 1][1] = "backward"
  /\ history[Len(history) - 1][2][1] = r
  /\ history[Len(history)] = <<"resetGrad", <<r>>>>

\* C3: after root.backward() followed by root.resetGrad(), every node
\* reachable from the root has grad 0 and an empty higher-order cache.
C3_ResetClears ==
  \A r \in NodeIds :
    BackwardThenReset(r) =>
      \A n \in Reach(nodes, r) :
        nodes[n].grad = <<0, 1>> /\ nodes[n].higherOrderGrads = << >>

\* a root with two operands has been reset right after a backward(2), which
\* fills the caches
C3_Witness ==
  \E r \in NodeIds :
    /\ BackwardThenReset(r)
    /\ history[Len(history) - 1][2][2] = 2
    /\ Cardinality(Reach(nodes, r)) = 3
    /\ \A n \in Reach(nodes, r) : nodes[n].grad = <<0, 1>>

\* The graph as it was built: every grad 0 and every cache empty.
Fresh(ns) ==
  [i \in DOMAIN ns |-> [ns[i] EXCEPT !.grad = Zero, !.higherOrderGrads = << >>]]

\* The calls made are r.backward(), r.resetGrad(), r.backward(), and the
\* last one returned.
BackwardResetBackward(r) ==
  /\ history = <<<<"backward", <<r, 1>>>>, <<"resetGrad", <<r>>>>,
                 <<"backward", <<r, 1>>>>>>
  /\ call.err = ""

\* C4: on a freshly built graph, root.backward(); root.resetGrad();
\* root.backward() leaves on every reachable node the grad that a single
\* root.backward() on the fresh graph leaves.
C4_ResetIdempotence ==
  \A r \in NodeIds :
    BackwardResetBackward(r) =>
      \A n \in Reach(nodes, r) :
        nodes[n].grad = backward(Fresh(nodes), r, 1).nodes[n].grad

\* the three calls have run on a root whose operand has a grad other than 0
C4_Witness ==
  \E r \in NodeIds :
    /\ BackwardResetBackward(r)
    /\ \E n \in Reach(nodes, r) : n # r /\ nodes[n].grad # <<0, 1>>

\* What root.clipGradients(m) is said to do in a step: it returns, and every
\* node n reachable from root ends with |grad| <= m, unchanged if its |grad|
\* was within m, and otherwise of magnitude m with the sign it had.
Clipped(root, m) ==
  /\ call'.err = ""
  /\ \A n \in Reach(nodes, root) :
       /\ Le(Abs(nodes'[n].grad), m)
       /\ Le(Abs(nodes[n].grad), m) => nodes'[n].grad = nodes[n].grad
       /\ Gt(Abs(nodes[n].grad), m) =>
            nodes'[n].grad = (IF nodes[n].grad[1] < 0 THEN Neg(m) ELSE m)

\* A step that is a call of clipGradients.
ClipStep == history' # history /\ call'.op = "clipGradients"

NonzeroGrads(r) ==
  {Abs(nodes[n].grad) : n \in {k \in Reach(nodes, r) : nodes[k].grad # <<0, 1>>}}

\* C6: checkGradientHealth() returns as maxGrad and minGrad the largest and
\* the smallest |grad| over the reachable nodes with nonzero grad,
\* hasExploding exactly when maxGrad > 1000 and hasVanishing exactly when
\* minGrad < 0.001; with no nonzero grad it returns maxGrad = -infinity,
\* minGrad = +infinity and both flags false.
C6_HealthReport ==
  call.op = "checkGradientHealth" =>
    LET G == NonzeroGrads(call.args[1]) IN
    /\ call.err = ""
    /\ G = {} => call.ret = [hasExploding |-> FALSE, hasVanishing |-> FALSE,
                             maxGrad |-> <<-1, 0>>, minGrad |-> <<1, 0>>]
    /\ G # {} =>
         /\ call.ret.maxGrad \in G /\ \A g \in G : Le(g, call.ret.maxGrad)
         /\ call.ret.minGrad \in G /\ \A g \in G : Le(call.ret.minGrad, g)
    /\ call.ret.hasExploding = Gt(call.ret.maxGrad, <<1000, 1>>)
    /\ call.ret.hasVanishing = Lt(call.ret.minGrad, <<1, 1000>>)

\* a report with both flags set, on a graph with grads 1, -2000 and -1/2000
C6_Witness ==
  /\ call.op = "checkGradientHealth"
  /\ call.ret = [hasExploding |-> TRUE, hasVanishing |-> TRUE,
                 maxGrad |-> <<2000, 1>>, minGrad |-> <<1, 2000>>]
  /\ Cardinality(NonzeroGrads(call.args[1])) = 3

\* The data of operand k of the last call, a Value the caller passed.
ArgData(k) == nodes[call.args[k][2]].data

\* C7: pow(a, b) fails, returning no node, exactly when a.data = 0 and
\* b.data = 0, or a.data = 0 and b.data < 0, or a.data < 0 and b.data is not
\* an integer, or a.data ** b.data is not finite; for every other pair it
\* returns a node whose data is a.data ** b.data.
C7_PowDomain ==
  call.op = "pow" =>
    LET a == ArgData(1)
        b == ArgData(2)
        fails == \/ a[1] = 0 /\ b[1] = 0
                 \/ a[1] = 0 /\ b[1] < 0
                 \/ a[1] < 0 /\ b[2] # 1
                 \/ ~IsFinite(Pow(a, b))
    IN  /\ fails <=> call.err # ""
        /\ fails => call.ret = 0
        /\ ~fails => call.ret = Len(nodes) /\ nodes[call.ret].data = Pow(a, b)

\* pow(-2, 3) has returned a node with data -8
C7_Witness ==
  /\ call.op = "pow" /\ call.err = ""
  /\ ArgData(1) = <<-2, 1>> /\ ArgData(2) = <<3, 1>>
  /\ nodes[call.ret].data = <<-8, 1>>

\* Node p is the result of pow(a, b) on leaves a and b with a.data = 0 and
\* b.data > 0.
ZeroBasePow(p, a, b) ==
  /\ origin[p] = <<"pow", <<<<"node", a>>, <<"node", b>>>>>>
  /\ origin[a][1] = "new" /\ origin[b][1] = "new"
  /\ nodes[a].data[1] = 0 /\ nodes[b].data[1] > 0

\* Node n is an operand of a node other than p.
UsedBesides(n, p) ==
  \E k \in NodeIds \ {p} :
    \/ \E s \in DOMAIN nodes[k].children : nodes[k].children[s] = n
    \/ origin[k][1] = "pow" /\ <<"node", n>> \in {origin[k][2][1], origin[k][2][2]}

\* Node p is reachable from r through the operands the builders were given.
RECURSIVE Consumes(_, _)
Consumes(r, p) ==
  \/ r = p
  \/ \E s \in DOMAIN nodes[r].children : Consumes(nodes[r].children[s], p)

\* C8: pow(a, b) with a.data = 0 and b.data > 0 returns a node with data 0,
\* and a backward pass from it, or from a root that consumes it, adds 0 to
\* a.grad and b.grad on its account: leaves a and b that nothing else uses
\* end with grad 0.
C8_ZeroBasePow ==
  \A p \in NodeIds : \A a \in NodeIds : \A b \in NodeIds :
    ZeroBasePow(p, a, b) =>
      /\ nodes[p].data = <<0, 1>>
      /\ \A r \in NodeIds :
           (BackwardDone(r) /\ Consumes(r, p)
              /\ ~UsedBesides(a, p) /\ ~UsedBesides(b, p)) =>
             nodes[a].grad = <<0, 1>> /\ nodes[b].grad = <<0, 1>>

\* backward has run from p + p, p being pow(0, 3) on leaves nothing else
\* uses; p itself has received grad 2
C8_Witness ==
  \E p \in NodeIds : \E a \in NodeIds : \E b \in NodeIds : \E r \in NodeIds :
    /\ ZeroBasePow(p, a, b)
    /\ BackwardDone(r) /\ r # p /\ Consumes(r, p)
    /\ ~UsedBesides(a, p) /\ ~UsedBesides(b, p)
    /\ nodes[p].grad = <<2, 1>>
    /\ nodes[a].grad = <<0, 1>> /\ nodes[b].grad = <<0, 1>>

\* A step that is a call div(a, b) on operands with data da and db, as the
\* heap held them before the call.
DivStep(da, db) ==
  /\ call'.op = "div"
  /\ da = nodes[call'.args[1][2]].data
  /\ db = nodes[call'.args[2][2]].data

\* The call failed and created nothing.
FailedClean == call'.err # "" /\ call'.ret = 0 /\ nodes' = nodes

\* The call returned a new node with data d.
Returned(d) ==
  /\ call'.err = ""
  /\ Len(nodes') = Len(nodes) + 1 /\ call'.ret = Len(nodes')
  /\ nodes'[call'.ret].data = d

\* C9 (as amended): div(a, b) fails with the near-zero error, before any
\* output node exists, whenever |b.data| is below the threshold; at or above
\* it, it returns a node with data a.data / b.data when that quotient is
\* finite, and fails, again with no output node, when it is not.
C9_DivFiniteQuotient ==
  [][\A da \in {nodes[i].data : i \in NodeIds} :
     \A db \in {nodes[i].data : i \in NodeIds} :
       DivStep(da, db) =>
         /\ Lt(Abs(db), EPSILON) =>
              FailedClean /\ call'.err = "Division by near-zero value"
         /\ (Ge(Abs(db), EPSILON) /\ IsFinite(NumDiv(da, db))) =>
              Returned(NumDiv(da, db))
         /\ (Ge(Abs(db), EPSILON) /\ ~IsFinite(NumDiv(da, db))) => FailedClean]_vars

\* C9 as stated: below the threshold div fails with the near-zero error, and
\* for every divisor at or above it div returns a node with data
\* a.data / b.data.
C9_DivAnyDivisor ==
  [][\A da \in {nodes[i].data : i \in NodeIds} :
     \A db \in {nodes[i].data : i \in NodeIds} :
       DivStep(da, db) =>
         /\ Lt(Abs(db), EPSILON) =>
              FailedClean /\ call'.err = "Division by near-zero value"
         /\ Ge(Abs(db), EPSILON) => Returned(NumDiv(da, db))]_vars

\* div has returned 8 for 1/2 over a divisor exactly at the threshold
C9_Witness ==
  /\ call.op = "div" /\ call.err = ""
  /\ ArgData(1) = <<1, 2>> /\ ArgData(2) = EPSILON
  /\ nodes[call.ret].data = <<8, 1>>

Builders ==
  {"sigmoid", "relu", "log", "neg", "add", "sub", "mul", "div", "exp", "pow", "tanh"}

\* A step that is a builder call that failed.
FailedBuild == call'.op \in Builders /\ call'.err # ""

HeapAfter == [nodes |-> nodes', counter |-> instanceCounter']

\* Two builder results are the same outcome: both fail with the same error,
\* or both return a node with the same data, grad, children and operation.
SameOutcome(x, y) ==
  /\ x.err = y.err
  /\ x.err = "" =>
       /\ x.nodes[x.ret].data = y.nodes[y.ret].data
       /\ x.nodes[x.ret].grad = y.nodes[y.ret].grad
       /\ x.nodes[x.ret].children = y.nodes[y.ret].children
       /\ x.nodes[x.ret].operation = y.nodes[y.ret].operation

\* The nodes that existed before the step, as ns holds them.
Old(ns) == SubSeq(ns, 1, Len(nodes))

\* C10: a builder call that fails leaves no trace in the graph: every node
\* that existed before the call is unchanged, no new node is reachable from
\* a pre-existing node, and a later div of a pre-existing node by the last
\* of them, or backward from it, behaves as it would have without the failed
\* call.
C10_FailedBuildNoTrace ==
  [][FailedBuild =>
       /\ Old(nodes') = nodes
       /\ \A i \in NodeIds : Reach(nodes', i) \subseteq NodeIds
       /\ \A a \in Refs : \A b \in {<<"node", r>> : r \in Last} :
            \A x \in {div(HeapAfter, a, b)} : \A y \in {div(Heap, a, b)} :
              SameOutcome(x, y)
       /\ \A r \in Last :
            Old(backward(nodes', r, 1).nodes) = backward(nodes, r, 1).nodes]_vars

\* div by a raw 0 has failed after backward had given a product's operand a
\* grad other than 0: the coerced 0 is in the heap, used by nothing
C10_Witness ==
  /\ call.op = "div" /\ call.err = "Division by near-zero value"
  /\ history # << >>
  /\ origin[Len(nodes)][1] = "from"
  /\ \E i \in NodeIds : nodes[i].children # << >> /\
       nodes[nodes[i].children[1]].grad # <<0, 1>>

\* The number of raw numbers among the first k operands.
NumbersUpTo(args, k) == Cardinality({j \in 1..k : args[j][1] = "num"})

\* Operand k is a raw number that is not finite.
BadNumber(args, k) == args[k][1] = "num" /\ args[k][2][2] = 0

\* Child c of the new node is what Value.from makes of operand k: the Value
\* itself, untouched, or a fresh leaf holding the number.
Coerced(args, k, c) ==
  IF args[k][1] = "node"
    THEN c = args[k][2] /\ nodes'[c] = nodes[c]
    ELSE /\ c = Len(nodes) + NumbersUpTo(args, k)
         /\ nodes'[c].data = args[k][2]
         /\ nodes'[c].grad = <<0, 1>>
         /\ nodes'[c].children = << >>

\* C11: Value.from returns the very node it is given, so a builder records
\* that node as its child and backward accumulates into it; a finite number
\* becomes a fresh leaf with that data, grad 0 and no children; NaN or an
\* infinity fails without creating a node.
C11_FromIdentity ==
  [][/\ (call'.op \in Builders /\ call'.err = "") =>
          \A k \in DOMAIN call'.args :
            Coerced(call'.args, k, nodes'[call'.ret].children[k])
     /\ \A k \in DOMAIN call'.args :
          (call'.op \in Builders /\ BadNumber(call'.args, k)
             /\ \A j \in 1..(k - 1) : ~BadNumber(call'.args, j)) =>
            /\ call'.err = "Value must be a finite number"
            /\ Len(nodes') = Len(nodes) + NumbersUpTo(call'.args, k - 1)
            /\ Old(nodes') = nodes
     /\ (call'.op = "backward" /\ history = << >>
           /\ origin[call'.args[1]][1] = "neg"
           /\ origin[call'.args[1]][2][1][1] = "node") =>
          nodes'[origin[call'.args[1]][2][1][2]].grad = <<-1, 1>>]_vars

\* backward has run from neg(a) for a Value a of the caller, and a.grad is -1
C11_Witness ==
  \E r \in NodeIds :
    /\ BackwardDone(r)
    /\ origin[r] = <<"neg", <<<<"node", 1>>>>>>
    /\ nodes[r].children = <<1>>
    /\ nodes[1].grad = <<-1, 1>>

\* C12: backward(order) and getHigherOrderGradient(order) fail for every
\* order < 1, and backward fails before anything is modified: no grad (the
\* root's included) and no higher-order cache changes.
C12_InvalidOrder ==
  [][/\ (call'.op = "backward" /\ history' # history /\ call'.args[2] < 1) =>
          call'.err = "Order must be >= 1" /\ nodes' = nodes
     /\ (call'.op = "getHigherOrderGradient" /\ history' # history
           /\ call'.args[2] < 1) =>
          call'.err = "Order must be >= 1" /\ nodes' = nodes]_vars

\* backward(0) has failed on a root that an earlier backward(2) had left with
\* a filled cache and operands with grads other than 0
C12_Witness ==
  \E r \in NodeIds :
    /\ history = <<<<"backward", <<r, 2>>>>, <<"backward", <<r, 0>>>>>>
    /\ call.err = "Order must be >= 1"
    /\ nodes[r].higherOrderGrads # << >>
    /\ nodes[r].children # << >>
    /\ nodes[nodes[r].children[1]].grad # <<0, 1>>

\* C13: after builder calls, resetGrad calls and backward calls of order 1
\* only, getHigherOrderGradient(k) returns 0 for every node and every
\* k >= 1, also for k = 1 on a node whose grad is not 0.
C13_NeverComputed ==
  [][(call'.op = "getHigherOrderGradient" /\ history' # history
        /\ call'.args[2] >= 1) =>
       /\ call'.err = ""
       /\ call'.ret = <<0, 1>>
       /\ nodes' = nodes]_vars

\* getHigherOrderGradient(1) has returned 0 for an operand whose grad a
\* backward of order 1 had set to a value other than 0
C13_Witness ==
  \E r, n \in NodeIds :
    /\ history = <<<<"backward", <<r, 1>>>>,
                   <<"getHigherOrderGradient", <<n, 1>>>>>>
    /\ n # r
    /\ n \in Reach(nodes, r)
    /\ nodes[n].grad # <<0, 1>>
    /\ call.err = ""
    /\ call.ret = <<0, 1>>

\* Polynomials in one variable as coefficient sequences (p[i] is the
\* coefficient of x^(i-1)): the value of a node built by add and mul, as a
\* function of the node x, every other leaf held constant.
Coef(p, i) == IF i \in DOMAIN p THEN p[i] ELSE Zero

PolyAdd(p, q) ==
  [i \in 1..(IF Len(p) > Len(q) THEN Len(p) ELSE Len(q)) |->
     NumAdd(Coef(p, i), Coef(q, i))]

RECURSIVE Convolve(_, _, _, _)
Convolve(p, q, i, j) ==
  IF j > i THEN Zero
  ELSE NumAdd(NumMul(Coef(p, j), Coef(q, i - j + 1)), Convolve(p, q, i, j + 1))

PolyMul(p, q) == [i \in 1..(Len(p) + Len(q) - 1) |-> Convolve(p, q, i, 1)]

PolyD(p) == [i \in 1..(Len(p) - 1) |-> NumMul(Num(i), p[i + 1])]

RECURSIVE PolyDk(_, _)
PolyDk(p, k) == IF k = 0 THEN p ELSE PolyDk(PolyD(p), k - 1)

RECURSIVE PolyEval(_, _, _)
PolyEval(p, x, i) ==
  IF i > Len(p) THEN Zero
  ELSE NumAdd(p[i], NumMul(x, PolyEval(p, x, i + 1)))

RECURSIVE PolyOf(_, _, _)
PolyOf(ns, v, x) ==
  IF v = x THEN <<Zero, One>>
  ELSE IF ns[v].children = << >> THEN <<ns[v].data>>
  ELSE IF ns[v].operation = "add"
    THEN PolyAdd(PolyOf(ns, ns[v].children[1], x),
                 PolyOf(ns, ns[v].children[2], x))
  ELSE PolyMul(PolyOf(ns, ns[v].children[1], x),
               PolyOf(ns, ns[v].children[2], x))

\* the k-th derivative of node r with respect to node x, at x's data
Derivative(ns, r, x, k) == PolyEval(PolyDk(PolyOf(ns, r, x), k), ns[x].data, 1)

\* C14: after root.backward(n), n >= 2, on a freshly built graph,
\* x.getHigherOrderGradient(k) for 1 <= k <= n is the k-th derivative of the
\* root with respect to x (for b = a*a with a = 3: 6 for k = 1, 2 for k = 2).
C14_HigherOrderDerivatives ==
  \A r \in NodeIds :
    (/\ Len(history) = 1
     /\ history[1][1] = "backward"
     /\ history[1][2][1] = r
     /\ history[1][2][2] >= 2
     /\ call.err = "") =>
      \A x \in Reach(nodes, r) :
        \A k \in 1..history[1][2][2] :
          getHigherOrderGradient(nodes, x, k).ret = Derivative(nodes, r, x, k)

\* C15: in every reachable state the data and the grad of every node are
\* finite numbers: every write to them, the writes of the gradient rules
\* during backward included, is validated and a non-finite write fails.
C15_FiniteEverywhere ==
  \A n \in NodeIds : IsFinite(nodes[n].data) /\ IsFinite(nodes[n].grad)

\* C16: root.backward() stores exactly 1 in the root's grad whatever it held
\* before, and when the call completes the root's grad is still exactly 1.
C16_SeedIsOne ==
  [][(call'.op = "backward" /\ history' # history /\ call'.err = "") =>
       nodes'[call'.args[1]].grad = <<1, 1>>]_vars

\* backward has completed on a root with operands whose grad the caller had
\* set to 5 before the call
C16_Witness ==
  \E r \in NodeIds :
    /\ history = <<<<"setGrad", <<r, <<5, 1>>>>>>, <<"backward", <<r, 1>>>>>>
    /\ call.err = ""
    /\ nodes[r].children # << >>
    /\ nodes[r].grad = <<1, 1>>

\* the operands of node c, as a set
Operands(ns, c) == {ns[c].children[s] : s \in DOMAIN ns[c].children}

\* C17: during root.backward() the gradient rule of a node is invoked only
\* after the rules of all its consumers reachable from the root, on any DAG,
\* diamonds and duplicate operand slots included.
C17_ConsumersFirst ==
  \A r \in NodeIds :
    BackwardDone(r) =>
      \A p \in DOMAIN call.ret :
        \A c \in Reach(nodes, r) :
          (call.ret[p] \in Operands(nodes, c)) =>
            \E q \in 1..(p - 1) : call.ret[q] = c

\* backward has run over a diamond: the root consumes a leaf and a node that
\* has the same leaf in both operand slots, and the leaf's rule came last
C17_Witness ==
  /\ BackwardDone(3)
  /\ nodes[3].children = <<1, 2>>
  /\ nodes[2].children = <<1, 1>>
  /\ call.ret = <<3, 2, 1>>

\* how many times node n occurs in the sequence f
Occurrences(f, n) == Cardinality({p \in DOMAIN f : f[p] = n})

\* C18: in one root.backward() the gradient rule of every node reachable from
\* the root fires exactly once, whatever the number of consumers or duplicate
\* operand slots, and the rule of a node not reachable never fires.
C18_FiresOnce ==
  \A r \in NodeIds :
    BackwardDone(r) =>
      \A n \in NodeIds :
        Occurrences(call.ret, n) = IF n \in Reach(nodes, r) THEN 1 ELSE 0

\* backward has run from a root with the same leaf in both operand slots while
\* another leaf is not reachable from it
C18_Witness ==
  /\ BackwardDone(3)
  /\ nodes[3].children = <<1, 1>>
  /\ nodes[2].children = << >>
  /\ Occurrences(call.ret, 1) = 1
  /\ Occurrences(call.ret, 2) = 0

\* The node a builder step returned has the coerced operands as children, in
\* operand order, and the builder's tag as operation.
Recorded ==
  /\ nodes'[call'.ret].operation = call'.op
  /\ DOMAIN nodes'[call'.ret].children = DOMAIN call'.args
  /\ \A k \in DOMAIN call'.args :
       Coerced(call'.args, k, nodes'[call'.ret].children[k])

\* C19: every node returned by a builder has children [a] (unary) or [a, b]
\* (binary, operand order, duplicates kept) and the tag of its builder as
\* operation, for every builder and operands on which it succeeds, pow with
\* a zero base included.
C19_Provenance ==
  [][(call'.op \in Builders /\ call'.err = "") => Recorded]_vars

\* The same for every builder call except pow with a zero base.
ProvenanceExceptZeroBase ==
  [][(call'.op \in Builders /\ call'.err = ""
        /\ ~(call'.op = "pow" /\ nodes[call'.args[1][2]].data = <<0, 1>>))
       => Recorded]_vars

\* C20: after any constructor and builder calls, failed ones included, ids
\* are pairwise distinct and strictly increasing in creation order, every
\* child of a node was created before it, and no node reaches itself through
\* children.
C20_Acyclic ==
  /\ \A i \in NodeIds : \A j \in NodeIds :
       i < j => nodes[i].id < nodes[j].id
  /\ \A i \in NodeIds : nodes[i].id < instanceCounter
  /\ \A i \in NodeIds : \A c \in Operands(nodes, i) :
       c \in NodeIds /\ c < i /\ nodes[c].id < nodes[i].id
  /\ \A i \in NodeIds : \A c \in Operands(nodes, i) : i \notin Reach(nodes, c)

\* a sum built after a div by a raw 0 had failed and left the coerced 0
\* behind as a leaf that nothing references
C20_Witness ==
  /\ Len(nodes) = 3
  /\ origin[2][1] = "from"
  /\ nodes[2].data = <<0, 1>>
  /\ \A i \in NodeIds : 2 \notin Operands(nodes, i)
  /\ nodes[3].children = <<1, 1>>
  /\ nodes[3].operation = "add"
  /\ call.err = ""

\* The order in which backward from r invokes the gradient rules.
RECURSIVE Reversed(_)
Reversed(s) == IF s = << >> THEN << >> ELSE Append(Reversed(Tail(s)), Head(s))

ProcessingOrder(ns, r) ==
  Reversed(topoSort(ns, r, [visited |-> {}, stack |-> << >>]).stack)

\* The heap after the rules of f[1], ..., f[k] have run in that order, with
\* whatever each of them wrote.
RECURSIVE Replay(_, _, _)
Replay(ns, f, k) ==
  IF k = 0 THEN ns ELSE computeGradient(Replay(ns, f, k - 1), f[k]).nodes

\* Backward from root failed at the last node of f, the first whose rule
\* fails: f is a prefix of the processing order, and the heap is the seeded
\* one with every write made up to the failure.
FailedAt(before, after, root, f, err) ==
  /\ Len(f) >= 1
  /\ f = SubSeq(ProcessingOrder(before, root), 1, Len(f))
  /\ \A k \in 1..(Len(f) - 1) :
       computeGradient(
         Replay([before EXCEPT ![root].grad = One], f, k - 1), f[k]).err = ""
  /\ computeGradient(
       Replay([before EXCEPT ![root].grad = One], f, Len(f) - 1),
       f[Len(f)]).err = err
  /\ after = Replay([before EXCEPT ![root].grad = One], f, Len(f))
  /\ after[root].grad = <<1, 1>>

\* C21: when a gradient rule fails during backward, backward fails there and
\* is not transactional: the rules of the nodes later in the processing order
\* are not invoked, the root keeps grad 1, and the grads already updated keep
\* their updated values.
C21_NotTransactional ==
  [][(call'.op = "backward" /\ history' # history /\ call'.err # "") =>
       FailedAt(nodes, nodes', call'.args[1], call'.ret, call'.err)]_vars

\* backward from p * b with p = pow(a, b), a tiny and b = -2, has failed in
\* the rule of p: the rule of the root had already given p and b their grads,
\* the rules of b and a were not invoked
C21_Witness ==
  /\ Len(nodes) = 4
  /\ nodes[3].operation = "pow" /\ nodes[3].children = <<1, 2>>
  /\ nodes[4].operation = "mul" /\ nodes[4].children = <<3, 2>>
  /\ history = <<<<"backward", <<4, 1>>>>>>
  /\ call.err = "Cannot raise 0 to zero or negative power"
  /\ call.ret = <<4, 3>>
  /\ nodes[4].grad = <<1, 1>>
  /\ nodes[3].grad = <<-2, 1>>
  /\ nodes[2].grad = <<256, 1>>

\* The grad node n holds right after its own rule has fired in the outermost
\* traversal of backward(order) from r: the nodes above n on the stack are
\* processed first, nested calls included, then the rule of n runs.
GradWhenFired(ns, r, order, n) ==
  LET stack == topoSort(ns, r, [visited |-> {}, stack |-> << >>]).stack
      p == CHOOSE q \in DOMAIN stack : stack[q] = n
      before == backwardLoop([ns EXCEPT ![r].grad = One],
                             SubSeq(stack, p + 1, Len(stack)), order, << >>).nodes
  IN computeGradient(before, n).nodes[n].grad

\* Node n has a cache entry for every order up to the one of the call, and
\* entry 1 is the grad it held when its rule fired.
CachedAsFired(n) ==
  /\ \A k \in 1..call'.args[2] : k \in DOMAIN nodes'[n].higherOrderGrads
  /\ nodes'[n].higherOrderGrads[1] =
       GradWhenFired(nodes, call'.args[1], call'.args[2], n)

\* C22: after root.backward(order), order >= 2, every node reachable from the
\* root has a cached value for each order 1..order, and its cached order-1
\* value is the grad it held right after its own rule fired in the outermost
\* traversal.
C22_CachedFirstOrder ==
  [][(call'.op = "backward" /\ history' # history /\ call'.err = ""
        /\ call'.args[2] >= 2) =>
       \A n \in Reach(nodes, call'.args[1]) : CachedAsFired(n)]_vars

\* backward(2) has completed on a * a with a = 3: the cache of a holds 12 for
\* order 1, the grad a had when its rule fired, after the rule of the root
\* and the nested pass from the root had each added 6
C22_Witness ==
  /\ Len(nodes) = 2
  /\ history = <<<<"backward", <<2, 2>>>>>>
  /\ call.err = ""
  /\ nodes[2].operation = "mul" /\ nodes[2].children = <<1, 1>>
  /\ nodes[1].data = <<3, 1>>
  /\ DOMAIN nodes[1].higherOrderGrads = {1, 2}
  /\ nodes[1].higherOrderGrads[1] = <<12, 1>>

\* C25: after root.backward(order), order >= 2, has completed without error,
\* every node reachable from the root has grad exactly 1 and
\* getHigherOrderGradient(k) = 1 for every k in 2..order, whatever the graph
\* and the data; the first-order gradients are no longer in grad.
C25_AllOnes ==
  (call.op = "backward" /\ call.err = "" /\ call.args[2] >= 2) =>
    \A n \in Reach(nodes, call.args[1]) :
      /\ nodes[n].grad = <<1, 1>>
      /\ \A k \in 2..call.args[2] :
           getHigherOrderGradient(nodes, n, k) = [ret |-> <<1, 1>>, err |-> ""]

\* backward(3) has completed on a * b with a = 3 and b = -2, where
\* backward(1) gives a the grad -2 and b the grad 3: all three grads are 1
C25_Witness ==
  /\ call.op = "backward" /\ call.err = "" /\ call.args = <<3, 3>>
  /\ nodes[1].data = <<3, 1>> /\ nodes[2].data = <<-2, 1>>
  /\ nodes[3].operation = "mul" /\ nodes[3].children = <<1, 2>>
  /\ \A n \in 1..3 : nodes[n].grad = <<1, 1>>
  /\ \A n \in 1..3 : \A k \in 2..3 : nodes[n].higherOrderGrads[k] = <<1, 1>>

\* The operand slots <<c, s>> of the nodes reachable from r that hold node n.
SlotsHolding(ns, r, n) ==
  {cs \in Reach(ns, r) \X (1..2) :
     cs[2] \in DOMAIN ns[cs[1]].children /\ ns[cs[1]].children[cs[2]] = n}

\* The sum over the slots in S of the local partial times the consumer's grad.
RECURSIVE Contributions(_, _)
Contributions(ns, S) ==
  IF S = {} THEN Zero
  ELSE LET cs == CHOOSE x \in S : TRUE
       IN NumAdd(NumMul(Partial(ns, cs[1], cs[2]), ns[cs[1]].grad),
                 Contributions(ns, S \ {cs}))

\* C24: backward() never clears existing grads: each reachable node other
\* than the root ends with the grad it held before plus, for each operand
\* slot of a reachable consumer that holds it, the local partial times the
\* consumer's final grad; two backward calls in a row double the
\* single-pass gradients (for c = a * b, a.grad becomes 2 * b.data).
C24_Accumulates ==
  [][(call'.op = "backward" /\ history' # history /\ call'.err = "") =>
       \A n \in Reach(nodes, call'.args[1]) \ {call'.args[1]} :
         nodes'[n].grad =
           NumAdd(nodes[n].grad,
                  Contributions(nodes', SlotsHolding(nodes, call'.args[1], n)))]_vars

\* two backward calls in a row on a * b with a = 3 and b = -2: a.grad is
\* 2 * b.data and b.grad is 2 * a.data
C24_Witness ==
  /\ history = <<<<"backward", <<3, 1>>>>, <<"backward", <<3, 1>>>>>>
  /\ call.err = ""
  /\ nodes[3].operation = "mul" /\ nodes[3].children = <<1, 2>>
  /\ nodes[1].data = <<3, 1>> /\ nodes[2].data = <<-2, 1>>
  /\ nodes[1].grad = <<-4, 1>>
  /\ nodes[2].grad = <<6, 1>>

\* The calls that work on the graph below a node.
GraphCalls == {"backward", "resetGrad", "clipGradients", "checkGradientHealth"}

\* C23: backward, resetGrad, clipGradients and checkGradientHealth never
\* change the data, children or operation of any node, never change the grad
\* or the cache of a node not reachable from the node they are called on,
\* and checkGradientHealth changes no field of any node.
C23_Frame ==
  [][(call'.op \in GraphCalls /\ history' # history) =>
       /\ DOMAIN nodes' = DOMAIN nodes
       /\ \A n \in NodeIds :
            /\ nodes'[n].id = nodes[n].id
            /\ nodes'[n].data = nodes[n].data
            /\ nodes'[n].children = nodes[n].children
            /\ nodes'[n].operation = nodes[n].operation
            /\ n \notin Reach(nodes, call'.args[1]) => nodes'[n] = nodes[n]
       /\ call'.op = "checkGradientHealth" => nodes' = nodes]_vars

\* resetGrad on the operand of a product has left the product, which it does
\* not reach, with the grad and the cache that backward(2) had given it
C23_Witness ==
  /\ history = <<<<"backward", <<2, 2>>>>, <<"resetGrad", <<1>>>>>>
  /\ nodes[2].children = <<1, 1>>
  /\ nodes[2].grad = <<1, 1>>
  /\ nodes[2].higherOrderGrads # << >>
  /\ nodes[1].grad = <<0, 1>>
  /\ nodes[1].higherOrderGrads = << >>

\* The number of gradient-rule invocations of backward(k) from r, nested
\* calls included: each reachable node fires once in the traversal and is
\* then the root of one backward(i - 1) for each i in 2..k.
RECURSIVE Invocations(_, _, _)
RECURSIVE NestedFrom(_, _, _, _)
RECURSIVE OverNodes(_, _, _)
Invocations(ns, r, k) == OverNodes(ns, Reach(ns, r), k)
NestedFrom(ns, n, k, i) ==
  IF i > k THEN 0
  ELSE Invocations(ns, n, i - 1) + NestedFrom(ns, n, k, i + 1)
OverNodes(ns, S, k) ==
  IF S = {} THEN 0
  ELSE LET n == CHOOSE x \in S : TRUE
       IN 1 + NestedFrom(ns, n, k, 2) + OverNodes(ns, S \ {n}, k)

====
